---- MODULE Spec2Model ----
(***************************************************************************)
(* Client-side cache/coherency layer of the admin frontend:                *)
(*   - the query cache as used by AdminCacheManager and the mutation hooks *)
(*     (src/lib/admin-cache-manager.ts, src/hooks/use-admin-realtime.ts),  *)
(*   - the optimistic update coordinator (useOptimisticUpdate),            *)
(*   - the realtime event channel (useAdminRealtime).                      *)
(*                                                                         *)
(* The query client is @tanstack/react-query v5 (gcTime, status 'pending' *)
(* in admin-cache-manager.ts).  Its operations are modelled by what they   *)
(* do to the query cache:                                                  *)
(*   invalidateQueries({queryKey: p}) sets isInvalidated on every query    *)
(*     whose key has p as a prefix, and removes nothing;                   *)
(*   removeQueries({queryKey: p}) removes every such query;                *)
(*   getQueryData(k) is the data of the query, undefined without a query;  *)
(*   setQueryData(k, u) computes the new data from the updater u and the   *)
(*     old data, returns without doing anything when the new data is       *)
(*     undefined, and otherwise builds the query if needed, stores the     *)
(*     data and clears isInvalidated.                                      *)
(***************************************************************************)
EXTENDS Integers, Sequences, FiniteSets, Bags, TLC

VARIABLES
    cache,            \* the query cache: present query keys -> [data, isInvalidated]
    isAdmin,          \* useAuthStore: isAuthenticated && user.role = 'ADMIN'
    lastOp,           \* the most recent call made on the cache layer, with its arguments
    calls,            \* useOptimisticUpdate: the invocations of updateOptimistically in flight
    pendingUpdates,   \* useOptimisticUpdate: the pendingUpdates map, updateId -> previous data
    mounted,          \* useAdminRealtime: the hook is mounted
    streams,          \* the EventSources the hook has created, in order: their readyState
    eventSourceRef,   \* eventSourceRef.current: index into streams, 0 for null
    timers,           \* the pending setTimeout callbacks of the hook
    nextTimer,        \* the id the next setTimeout returns
    reconnectTimeoutRef,  \* reconnectTimeoutRef.current: a timer id, 0 for null
    reconnectAttempts,    \* reconnectAttemptsRef.current
    isConnected,      \* useState isConnected
    connectionError,  \* useState connectionError
    scheduledDelays,  \* delays given to setTimeout by onerror since the last open or disconnect
    queries,          \* useQuery: the queries of the query cache, each with its fetch state
                      \* and the minutes passed since its dataUpdatedAt
    inflight,         \* the invocations of query functions that have not settled: a bag of keys
    keyCall,          \* the last two calls of key builders of ADMIN_CACHE_KEYS: request and key
    run,              \* one fetch of a query: the hook, the retryer's state, the statuses
                      \* of the HTTP requests issued, the last error, the session-expiry flow
    entries,          \* the query cache as cleanup() reads it: key -> whether the query has
                      \* data, the minutes since dataUpdatedAt, the number of observers
    proxyCall,        \* the API proxy routes: the last GET request and the response to it
    server,           \* the events route: the stream of one connection, its timers, the time
    clients,          \* the QueryClients constructed, in order: the query cache of each
    adminCacheManager,    \* the module-level singleton: the client its manager holds, 0 for null
    managerCall,      \* the last use of a manager: the client passed and the client acted on
    apiRequests,      \* ApiClient: the calls of request made, in order: the phase of each
    refreshPromise,   \* ApiClient.refreshPromise
    orderCheck        \* the order utilities: the last order status and new status asked
                      \* about, and what the three functions returned

cacheVars == <<cache, calls, pendingUpdates>>

channelVars == <<mounted, streams, eventSourceRef, timers, nextTimer, reconnectTimeoutRef,
                 reconnectAttempts, isConnected, connectionError, scheduledDelays>>

\* the state of the parts modelled after the query hooks
managerVars == <<clients, adminCacheManager, managerCall>>

apiVars == <<apiRequests, refreshPromise>>

extraVars == <<entries, proxyCall, server, managerVars, apiVars, orderCheck>>

\* extraVars without one of its parts
exceptEntries == <<proxyCall, server, managerVars, apiVars, orderCheck>>

exceptProxyCall == <<entries, server, managerVars, apiVars, orderCheck>>

exceptServer == <<entries, proxyCall, managerVars, apiVars, orderCheck>>

exceptManager == <<entries, proxyCall, server, apiVars, orderCheck>>

exceptApi == <<entries, proxyCall, server, managerVars, orderCheck>>

exceptOrderCheck == <<entries, proxyCall, server, managerVars, apiVars>>

queryVars == <<queries, inflight, keyCall, run, extraVars>>

\* the state of the parts modelled before them, the record of the last call left out
coreVars == <<cacheVars, isAdmin, channelVars, queries, inflight, keyCall, run>>

vars == <<cache, isAdmin, lastOp, calls, pendingUpdates, mounted, streams, eventSourceRef,
          timers, nextTimer, reconnectTimeoutRef, reconnectAttempts, isConnected,
          connectionError, scheduledDelays, queries, inflight, keyCall, run, extraVars>>

----------------------------------------------------------------------------
(* Bounds of the model *)

\* most queries held by the cache at one time
MaxEntries == 2

\* most invocations of updateOptimistically in flight at one time
MaxCalls == 2

\* most EventSources one hook instance creates in a run
MaxStreams == 2

\* most setTimeout calls one hook instance makes in a run
MaxTimers == 5

\* most queries the query hooks hold at one time
MaxQueries == 3

\* the minutes after which the age of a query's data is no longer counted
MaxTime == 6

\* most observers one query has at one time
MaxObservers == 1

\* most QueryClients constructed in a run
MaxClients == 3

\* most calls of ApiClient.request made in a run
MaxRequests == 3

\* the minutes after which the time since a query's last update is no longer counted
MaxIdle == 61

----------------------------------------------------------------------------
(* Cache keys: ADMIN_CACHE_KEYS and the keys the hooks use *)

Resources == {"orders", "products", "customers", "categories"}

Actions == {"create", "update", "delete"}

Ids == {"1", "2"}

\* the id argument left out (id?: string)
NoId == "undefined"

\* the value of getQueryData for a key without data
Undefined == "undefined"

Data == {"a", "b", "c"}

DashboardKeys ==
    { <<"admin", "dashboard", "stats">>,
      <<"admin", "dashboard", "overview">>,
      <<"admin", "dashboard", "recent-orders">>,
      <<"admin", "dashboard", "top-products">>,
      <<"admin", "dashboard", "recent-customers">> }

\* a detail key: (admin, resource, detail, id)
IsDetailKey(key) == Len(key) = 4 /\ key[3] = "detail"

ListKey(r) == <<"admin", r, "list">>

StatsKey(r) == <<"admin", r, "stats">>

DetailKey(r, id) == <<"admin", r, "detail", id>>

ResourceKeys ==
    UNION { {ListKey(r), StatsKey(r)} \cup {DetailKey(r, id) : id \in Ids} : r \in Resources }

SettingsKey == <<"admin", "settings">>

Keys == DashboardKeys \cup ResourceKeys \cup {SettingsKey}

----------------------------------------------------------------------------
(* The query client *)

\* partialMatchKey: the query key starts with the filter's queryKey
partialMatchKey(key, prefix) ==
    /\ Len(prefix) <= Len(key)
    /\ \A i \in 1..Len(prefix) : key[i] = prefix[i]

getQueryData(c, key) ==
    IF key \in DOMAIN c THEN c[key].data ELSE Undefined

\* (mutant) invalidation flips the flag instead of setting it
invalidateQueries_toggle(c, prefix) ==
    [k \in DOMAIN c |->
        IF partialMatchKey(k, prefix)
        THEN [c[k] EXCEPT !.isInvalidated = ~c[k].isInvalidated]
        ELSE c[k]]

invalidateQueries(c, prefix) ==
    [k \in DOMAIN c |->
        IF partialMatchKey(k, prefix)
        THEN [c[k] EXCEPT !.isInvalidated = TRUE]
        ELSE c[k]]

removeQueries(c, prefix) ==
    [k \in {q \in DOMAIN c : ~partialMatchKey(q, prefix)} |-> c[k]]

\* setQueryData with a value (an updater function is applied by the caller)
setQueryData(c, key, data) ==
    IF data = Undefined
    THEN c
    ELSE [k \in DOMAIN c \cup {key} |->
            IF k = key THEN [data |-> data, isInvalidated |-> FALSE] ELSE c[k]]

----------------------------------------------------------------------------
(* AdminCacheManager *)

invalidateDashboard(c) ==
    invalidateQueries(c, <<"admin", "dashboard">>)

invalidateResource(c, resource) ==
    invalidateDashboard(invalidateQueries(c, <<"admin", resource>>))

\* (mutant) create forgets the stats queries
afterCreate_noStats(c, resource) ==
    invalidateDashboard(invalidateQueries(c, <<"admin", resource, "list">>))

\* case 'create'
afterCreate(c, resource) ==
    invalidateDashboard(
        invalidateQueries(
            invalidateQueries(c, <<"admin", resource, "list">>),
            <<"admin", resource, "stats">>))

\* (mutant) update forgets the detail query
afterUpdate_noDetail(c, resource, id) ==
    invalidateDashboard(invalidateQueries(c, <<"admin", resource, "list">>))

\* case 'update'
afterUpdate(c, resource, id) ==
    LET c1 == IF id # NoId
              THEN invalidateQueries(c, <<"admin", resource, "detail", id>>)
              ELSE c
    IN  invalidateDashboard(invalidateQueries(c1, <<"admin", resource, "list">>))

\* (mutant) delete invalidates the detail query instead of removing it
afterDelete_keepsDetail(c, resource, id) ==
    LET c1 == IF id # NoId
              THEN invalidateQueries(c, <<"admin", resource, "detail", id>>)
              ELSE c
    IN  invalidateDashboard(
            invalidateQueries(
                invalidateQueries(c1, <<"admin", resource, "list">>),
                <<"admin", resource, "stats">>))

\* case 'delete'
afterDelete(c, resource, id) ==
    LET c1 == IF id # NoId
              THEN removeQueries(c, <<"admin", resource, "detail", id>>)
              ELSE c
    IN  invalidateDashboard(
            invalidateQueries(
                invalidateQueries(c1, <<"admin", resource, "list">>),
                <<"admin", resource, "stats">>))

\* the switch on action
invalidateAfterMutation(c, resource, action, id) ==
    CASE action = "create" -> afterCreate(c, resource)
      [] action = "update" -> afterUpdate(c, resource, id)
      [] action = "delete" -> afterDelete(c, resource, id)

----------------------------------------------------------------------------
(* The record of the most recent call *)

Op(name, resource, kind) ==
    [name |-> name, resource |-> resource, kind |-> kind, value |-> "-"]

\* a call that wrote a value into a query
OpValue(name, kind, value) ==
    [name |-> name, resource |-> "-", kind |-> kind, value |-> value]

NoOp == Op("none", "-", "-")

----------------------------------------------------------------------------
(* Queries and the cache manager *)

\* a query function resolves: the query holds fresh data
Fetch(key, data) ==
    /\ key \in DOMAIN cache \/ Cardinality(DOMAIN cache) < MaxEntries
    /\ cache' = setQueryData(cache, key, data)
    /\ lastOp' = Op("fetch", "-", "-")
    /\ UNCHANGED <<isAdmin, calls, pendingUpdates, channelVars, queryVars>>

InvalidateDashboard ==
    /\ cache' = invalidateDashboard(cache)
    /\ lastOp' = Op("invalidateDashboard", "-", "-")
    /\ UNCHANGED <<isAdmin, calls, pendingUpdates, channelVars, queryVars>>

InvalidateResource(resource) ==
    /\ cache' = invalidateResource(cache, resource)
    /\ lastOp' = Op("invalidateResource", "-", "-")
    /\ UNCHANGED <<isAdmin, calls, pendingUpdates, channelVars, queryVars>>

InvalidateAfterMutation(resource, action, id) ==
    /\ cache' = invalidateAfterMutation(cache, resource, action, id)
    /\ lastOp' = Op("invalidateAfterMutation", "-", "-")
    /\ UNCHANGED <<isAdmin, calls, pendingUpdates, channelVars, queryVars>>

----------------------------------------------------------------------------
(* useAdminRealtime: eventSource.onmessage *)

EventTypes == {"connected", "stats_update", "order_update", "product_update",
               "customer_update", "unknown", "malformed"}

\* the switch on data.type
onmessage(c, type) ==
    CASE type = "stats_update" ->
            invalidateQueries(c, <<"admin", "dashboard", "stats">>)
      [] type = "order_update" ->
            invalidateQueries(
                invalidateQueries(c, <<"admin", "dashboard", "recent-orders">>),
                <<"admin", "orders">>)
      [] type = "product_update" ->
            invalidateQueries(
                invalidateQueries(c, <<"admin", "dashboard", "top-products">>),
                <<"admin", "products">>)
      [] type = "customer_update" ->
            invalidateQueries(
                invalidateQueries(c, <<"admin", "dashboard", "recent-customers">>),
                <<"admin", "customers">>)
      [] OTHER -> c

\* a message arrives; one that is not JSON ("malformed") is caught by the
\* handler and changes nothing, like an unknown type
OnMessage(type) ==
    /\ cache' = onmessage(cache, type)
    /\ lastOp' = Op("onmessage", "-", "-")
    /\ UNCHANGED <<isAdmin, calls, pendingUpdates, channelVars, queryVars>>

----------------------------------------------------------------------------
(* useAdminRealtime: the connection *)

\* options.reconnectInterval, its default
reconnectInterval == 5000

\* the attempts onerror allows
MaxReconnectAttempts == 5

\* the delay of reconnect()
ManualReconnectDelay == 1000

\* the guard of connect(), from the values its closure captured (enabled = true)
canConnect(admin) == admin

\* (mutant) every reconnect waits the same time
reconnectDelay_constant(attempts) ==
    reconnectInterval

\* the delay onerror gives setTimeout, from the incremented counter
reconnectDelay(attempts) ==
    reconnectInterval * attempts

\* (mutant) onopen leaves the counter alone
attemptsAfterOpen_kept ==
    reconnectAttempts

\* onopen: reconnectAttemptsRef.current = 0
attemptsAfterOpen ==
    0

\* eventSourceRef.current.close(), when there is one
closeRef(ss, ref) ==
    IF ref # 0 THEN [ss EXCEPT ![ref] = "closed"] ELSE ss

\* clearTimeout(id), when the ref holds one; ids of timers that are gone clear nothing
clearTimeout(ts, id) ==
    {t \in ts : t.id # id}

Live(ss) == {i \in DOMAIN ss : ss[i] # "closed"}

\* the body of disconnect(), on everything but streams and timers of a following connect()
disconnect ==
    /\ timers' = clearTimeout(timers, reconnectTimeoutRef)
    /\ reconnectTimeoutRef' = 0
    /\ isConnected' = FALSE
    /\ connectionError' = "null"
    /\ reconnectAttempts' = 0
    /\ scheduledDelays' = << >>

\* new EventSource(...) and eventSourceRef.current = eventSource, on the streams ss
connect(ss) ==
    /\ Len(ss) < MaxStreams
    /\ streams' = Append(ss, "connecting")
    /\ eventSourceRef' = Len(ss) + 1

\* a fresh hook instance mounts: the effect connects when isAdmin && enabled
Mount ==
    /\ ~mounted
    /\ streams = << >>
    /\ nextTimer = 1
    /\ mounted' = TRUE
    /\ IF canConnect(isAdmin)
       THEN connect(streams)
       ELSE UNCHANGED <<streams, eventSourceRef>>
    /\ lastOp' = Op("mount", "-", "-")
    /\ UNCHANGED <<cacheVars, queryVars, isAdmin, timers, nextTimer, reconnectTimeoutRef,
                   reconnectAttempts, isConnected, connectionError, scheduledDelays>>

\* the hook unmounts: the cleanups of both effects run disconnect()
Unmount ==
    /\ mounted
    /\ mounted' = FALSE
    /\ streams' = closeRef(streams, eventSourceRef)
    /\ eventSourceRef' = 0
    /\ disconnect
    /\ lastOp' = Op("unmount", "-", "-")
    /\ UNCHANGED <<cacheVars, queryVars, isAdmin, nextTimer>>

\* the auth store changes (login, logout, role); a mounted hook runs the
\* cleanup of its [isAdmin, enabled] effect and then the effect again
AuthChange ==
    /\ isAdmin' = ~isAdmin
    /\ lastOp' = Op("authChange", "-", "-")
    /\ IF mounted
       THEN /\ disconnect
            /\ IF canConnect(isAdmin')
               THEN connect(closeRef(streams, eventSourceRef))
               ELSE /\ streams' = closeRef(streams, eventSourceRef)
                    /\ eventSourceRef' = 0
            /\ UNCHANGED <<cacheVars, queryVars, mounted, nextTimer>>
       ELSE UNCHANGED <<cacheVars, queryVars, channelVars>>

\* eventSource.onopen
OnOpen(s) ==
    /\ s \in DOMAIN streams
    /\ streams[s] = "connecting"
    /\ streams' = [streams EXCEPT ![s] = "open"]
    /\ isConnected' = TRUE
    /\ connectionError' = "null"
    /\ reconnectAttempts' = attemptsAfterOpen
    /\ scheduledDelays' = << >>
    /\ lastOp' = Op("onopen", "-", "-")
    /\ UNCHANGED <<cacheVars, queryVars, isAdmin, mounted, eventSourceRef, timers, nextTimer,
                   reconnectTimeoutRef>>

\* eventSource.onerror; the browser either retries the stream itself (it is
\* connecting again) or gives it up (it is closed)
OnError(s, fatal) ==
    /\ s \in Live(streams)
    /\ streams' = [streams EXCEPT ![s] = IF fatal THEN "closed" ELSE "connecting"]
    /\ isConnected' = FALSE
    /\ IF reconnectAttempts < MaxReconnectAttempts
       THEN /\ nextTimer <= MaxTimers
            /\ reconnectAttempts' = reconnectAttempts + 1
            /\ timers' = timers \cup {[id |-> nextTimer, kind |-> "reconnect",
                                       delay |-> reconnectDelay(reconnectAttempts'),
                                       admin |-> TRUE]}
            /\ reconnectTimeoutRef' = nextTimer
            /\ nextTimer' = nextTimer + 1
            /\ scheduledDelays' = Append(scheduledDelays, reconnectDelay(reconnectAttempts'))
            /\ connectionError' = "Connection error"
            /\ lastOp' = Op("onerror", "-", "scheduled")
       ELSE /\ connectionError' = "Max reconnection attempts reached"
            /\ lastOp' = Op("onerror", "-", "max_reached")
            /\ UNCHANGED <<reconnectAttempts, timers, reconnectTimeoutRef, nextTimer,
                           scheduledDelays>>
    /\ UNCHANGED <<cacheVars, queryVars, isAdmin, mounted, eventSourceRef>>

\* a pending timer fires and runs connect() of the closure that set it
TimerFires(t) ==
    /\ t \in timers
    /\ timers' = timers \ {t}
    /\ IF canConnect(t.admin)
       THEN connect(streams)
       ELSE UNCHANGED <<streams, eventSourceRef>>
    /\ lastOp' = Op("timer", "-", t.kind)
    /\ UNCHANGED <<cacheVars, queryVars, isAdmin, mounted, nextTimer, reconnectTimeoutRef,
                   reconnectAttempts, isConnected, connectionError, scheduledDelays>>

\* the component calls the returned disconnect()
Disconnect ==
    /\ mounted
    /\ streams' = closeRef(streams, eventSourceRef)
    /\ eventSourceRef' = 0
    /\ disconnect
    /\ lastOp' = Op("disconnect", "-", "-")
    /\ UNCHANGED <<cacheVars, queryVars, isAdmin, mounted, nextTimer>>

\* the component calls the returned reconnect(): disconnect(), then
\* setTimeout(connect, 1000), whose id is kept nowhere
Reconnect ==
    /\ mounted
    /\ nextTimer <= MaxTimers
    /\ streams' = closeRef(streams, eventSourceRef)
    /\ eventSourceRef' = 0
    /\ reconnectTimeoutRef' = 0
    /\ isConnected' = FALSE
    /\ connectionError' = "null"
    /\ reconnectAttempts' = 0
    /\ scheduledDelays' = << >>
    /\ timers' = clearTimeout(timers, reconnectTimeoutRef)
                    \cup {[id |-> nextTimer, kind |-> "manual",
                           delay |-> ManualReconnectDelay, admin |-> isAdmin]}
    /\ nextTimer' = nextTimer + 1
    /\ lastOp' = Op("reconnect", "-", "-")
    /\ UNCHANGED <<cacheVars, queryVars, isAdmin, mounted>>

NextChannel ==
    \/ Mount
    \/ Unmount
    \/ AuthChange
    \/ \E s \in DOMAIN streams : OnOpen(s)
    \/ \E s \in DOMAIN streams, fatal \in BOOLEAN : OnError(s, fatal)
    \/ \E t \in timers : TimerFires(t)
    \/ Disconnect
    \/ Reconnect

----------------------------------------------------------------------------
(* Cache specification: queries, cache manager, realtime messages *)

\* no key of ADMIN_CACHE_KEYS has been built yet
NoKeyCall ==
    LET none == [request |-> [builder |-> "none", resource |-> "-",
                              params |-> [defined |-> FALSE, fields |-> << >>],
                              args |-> << >>],
                 key |-> [segments |-> << >>,
                          object |-> [defined |-> FALSE, fields |-> << >>]]]
    IN  [last |-> none, prev |-> none]

\* no request has reached a proxy route
NoProxyCall ==
    [request |-> [route |-> "none", accessToken |-> FALSE, period |-> "-", backend |-> "-"],
     response |-> [status |-> "-", success |-> FALSE, data |-> "-"]]

\* no request has reached the events route
NoServer ==
    [stream |-> "none", statsInterval |-> FALSE, orderInterval |-> FALSE,
     timeout |-> FALSE, aborted |-> FALSE, time |-> 0, last |-> "-", onClosed |-> {}]

\* no manager has been used
NoManagerCall == [client |-> 0, actedOn |-> 0]

\* no order has been asked about
NoOrderCheck ==
    [status |-> "-", newStatus |-> "-", canCancel |-> FALSE, canUpdate |-> FALSE, next |-> << >>]

\* no fetch is running
NoRun == [hook |-> "none", state |-> "idle", failureCount |-> 0, attempts |-> 0,
          requests |-> << >>, error |-> << >>, sessionExpired |-> FALSE]

Init ==
    /\ cache = << >>
    /\ isAdmin = TRUE
    /\ lastOp = NoOp
    /\ calls = EmptyBag
    /\ pendingUpdates = << >>
    /\ mounted = FALSE
    /\ streams = << >>
    /\ eventSourceRef = 0
    /\ timers = {}
    /\ nextTimer = 1
    /\ reconnectTimeoutRef = 0
    /\ reconnectAttempts = 0
    /\ isConnected = FALSE
    /\ connectionError = "null"
    /\ scheduledDelays = << >>
    /\ queries = << >>
    /\ inflight = EmptyBag
    /\ keyCall = NoKeyCall
    /\ run = NoRun
    /\ entries = << >>
    /\ proxyCall = NoProxyCall
    /\ server = NoServer
    /\ clients = << >>
    /\ adminCacheManager = 0
    /\ managerCall = NoManagerCall
    /\ apiRequests = << >>
    /\ refreshPromise = "null"
    /\ orderCheck = NoOrderCheck

ServerData == {"a"}

NextCache ==
    \/ \E key \in Keys, data \in ServerData : Fetch(key, data)
    \/ InvalidateDashboard
    \/ \E resource \in Resources : InvalidateResource(resource)
    \/ \E resource \in Resources, action \in Actions, id \in Ids \cup {NoId} :
            InvalidateAfterMutation(resource, action, id)
    \/ \E type \in EventTypes : OnMessage(type)

SpecCache == Init /\ [][NextCache]_vars

\* the part of it the rules of invalidateAfterMutation are about: queries
\* get data and mutations invalidate
NextMutation ==
    \/ \E key \in Keys, data \in ServerData : Fetch(key, data)
    \/ \E resource \in Resources, action \in Actions, id \in Ids \cup {NoId} :
            InvalidateAfterMutation(resource, action, id)

SpecMutation == Init /\ [][NextMutation]_vars

SpecChannel == Init /\ [][NextChannel]_vars

----------------------------------------------------------------------------
(* Admin mutation hooks (useMutation) *)

Hooks == {"useUpdateOrderStatus",
          "useCreateProduct", "useUpdateProduct", "useDeleteProduct",
          "useCreateCategory", "useUpdateCategory", "useDeleteCategory",
          "useUpdateCustomer", "useDeleteCustomer",
          "useUpdateSettings", "useResetSettings"}

SettingsHooks == {"useUpdateSettings", "useResetSettings"}

\* the resource segment of the key each hook invalidates
HookResource(hook) ==
    CASE hook = "useUpdateOrderStatus" -> "orders"
      [] hook \in {"useCreateProduct", "useUpdateProduct", "useDeleteProduct"} -> "products"
      [] hook \in {"useCreateCategory", "useUpdateCategory", "useDeleteCategory"} -> "categories"
      [] hook \in {"useUpdateCustomer", "useDeleteCustomer"} -> "customers"
      [] OTHER -> "settings"

\* (mutant) the product hooks forget the dashboard
onSuccess_productsNoDashboard(c, hook) ==
    IF hook \in SettingsHooks \/ HookResource(hook) = "products"
    THEN invalidateQueries(c, <<"admin", HookResource(hook)>>)
    ELSE invalidateQueries(
            invalidateQueries(c, <<"admin", HookResource(hook)>>),
            <<"admin", "dashboard">>)

\* the onSuccess callback of each hook
onSuccess(c, hook) ==
    IF hook \in SettingsHooks
    THEN invalidateQueries(c, <<"admin", "settings">>)
    ELSE invalidateQueries(
            invalidateQueries(c, <<"admin", HookResource(hook)>>),
            <<"admin", "dashboard">>)

\* (mutant) a failed mutation invalidates like a successful one
onError_invalidates(c, hook) ==
    onSuccess(c, hook)

\* the onError callback of each hook: a toast, nothing on the cache
onError(c, hook) ==
    c

ApiOutcomes == {"success", "api_error", "network_error"}

\* mutationFn: throws unless isAdmin, otherwise the outcome of the apiClient call
mutationFn(admin, outcome) ==
    IF ~admin THEN "not_admin" ELSE outcome

\* useMutation: the cache after mutationFn and then onSuccess or onError
mutate(c, admin, hook, outcome) ==
    IF mutationFn(admin, outcome) = "success" THEN onSuccess(c, hook) ELSE onError(c, hook)

\* mutate() of a hook is called and settles
Mutate(hook, outcome) ==
    LET result == mutationFn(isAdmin, outcome)
    IN  /\ cache' = mutate(cache, isAdmin, hook, outcome)
        /\ lastOp' = Op("mutate", HookResource(hook), IF result = "success" THEN "success" ELSE "error")
        /\ UNCHANGED <<isAdmin, calls, pendingUpdates, channelVars, queryVars>>

\* the queries the hooks are run against: two of the dashboard, two of each
\* resource, the settings
HookKeys ==
    {<<"admin", "dashboard", "stats">>, <<"admin", "dashboard", "overview">>, SettingsKey}
        \cup {ListKey(r) : r \in Resources}
        \cup {DetailKey(r, "1") : r \in Resources}

NextHooks ==
    \/ \E key \in HookKeys, data \in ServerData : Fetch(key, data)
    \/ \E hook \in Hooks, outcome \in ApiOutcomes : Mutate(hook, outcome)
    \/ AuthChange

SpecHooks == Init /\ [][NextHooks]_vars

----------------------------------------------------------------------------
(* useOptimisticUpdate *)

UpdateIds == {"u1", "u2"}

\* the key optimistic updates are made on
OptKeys == {DetailKey("orders", "1")}

\* pendingUpdates.set(updateId, previousData)
mapSet(m, updateId, value) ==
    [u \in DOMAIN m \cup {updateId} |-> IF u = updateId THEN value ELSE m[u]]

\* newMap.delete(updateId)
mapDelete(m, updateId) ==
    [u \in DOMAIN m \ {updateId} |-> m[u]]

\* (mutant) the rollback writes the speculative value back
rollbackValue_keepsPatch(call) ==
    call.patch

\* the value the catch block writes: previousData
rollbackValue(call) ==
    call.previousData

\* (mutant) an update that overlaps another on the key takes over the value
\* the other captured
previousDataAt_firstCapture(c, queryKey) ==
    IF \E call \in BagToSet(calls) : call.queryKey = queryKey
    THEN (CHOOSE call \in BagToSet(calls) : call.queryKey = queryKey).previousData
    ELSE getQueryData(c, queryKey)

\* const previousData = queryClient.getQueryData(queryKey)
previousDataAt(c, queryKey) ==
    getQueryData(c, queryKey)

\* (mutant) the try block leaves the speculative value in place
commitValue_keepsPatch(call, result) ==
    call.patch

\* the value the try block writes after the await: result
commitValue(call, result) ==
    result

\* updateOptimistically up to the await: capture previousData, apply updateFn
\* (here a function returning value), track the pending update
StartUpdate(queryKey, value, updateId) ==
    LET previousData == previousDataAt(cache, queryKey)
        call == [queryKey |-> queryKey, previousData |-> previousData,
                 patch |-> value, updateId |-> updateId]
    IN  /\ BagCardinality(calls) < MaxCalls
        /\ queryKey \in DOMAIN cache \/ Cardinality(DOMAIN cache) < MaxEntries
        /\ cache' = setQueryData(cache, queryKey, value)
        /\ pendingUpdates' = mapSet(pendingUpdates, updateId, previousData)
        /\ calls' = calls (+) SetToBag({call})
        /\ lastOp' = OpValue("updateOptimistically", "started", value)
        /\ UNCHANGED <<isAdmin, channelVars, queryVars>>

\* mutationFn resolves with result: the try block after the await
ResolveUpdate(call, result) ==
    /\ BagIn(call, calls)
    /\ call.queryKey \in DOMAIN cache \/ Cardinality(DOMAIN cache) < MaxEntries
    /\ cache' = setQueryData(cache, call.queryKey, commitValue(call, result))
    /\ pendingUpdates' = mapDelete(pendingUpdates, call.updateId)
    /\ calls' = calls (-) SetToBag({call})
    /\ lastOp' = OpValue("updateOptimistically", "resolved", result)
    /\ UNCHANGED <<isAdmin, channelVars, queryVars>>

\* mutationFn rejects: the catch block
RejectUpdate(call) ==
    /\ BagIn(call, calls)
    /\ cache' = setQueryData(cache, call.queryKey, rollbackValue(call))
    /\ pendingUpdates' = mapDelete(pendingUpdates, call.updateId)
    /\ calls' = calls (-) SetToBag({call})
    /\ lastOp' = Op("updateOptimistically", "-", "rejected")
    /\ UNCHANGED <<isAdmin, channelVars, queryVars>>

NextOpt ==
    \/ \E key \in OptKeys, data \in ServerData : Fetch(key, data)
    \/ \E key \in OptKeys, value \in Data, updateId \in UpdateIds :
            StartUpdate(key, value, updateId)
    \/ \E call \in BagToSet(calls), result \in Data : ResolveUpdate(call, result)
    \/ \E call \in BagToSet(calls) : RejectUpdate(call)
    \/ InvalidateResource("orders")
    \/ InvalidateAfterMutation("orders", "delete", "1")
    \/ OnMessage("order_update")

SpecOpt == Init /\ [][NextOpt]_vars

\* the call that starts in a step
StartingCall == CHOOSE call \in BagToSet(calls') : CopiesIn(call, calls') > CopiesIn(call, calls)

\* the call that ends in a step
EndingCall == CHOOSE call \in BagToSet(calls) : CopiesIn(call, calls') < CopiesIn(call, calls)

\* C1: when the mutation of updateOptimistically fails and the key still holds
\* what the optimistic patch wrote, the key's value after the rollback is the
\* value it had before the patch, also when it had none.
C1_RollbackRestoresPrevious ==
    [][(/\ lastOp'.name = "updateOptimistically"
        /\ lastOp'.kind = "rejected"
        /\ getQueryData(cache, EndingCall.queryKey) = EndingCall.patch)
          => getQueryData(cache', EndingCall.queryKey) = EndingCall.previousData]_vars

----------------------------------------------------------------------------
(* Properties of the invalidation policy *)

IsStale(c, key) == key \in DOMAIN c /\ c[key].isInvalidated

\* the queries under a prefix are all marked stale
AllStaleUnder(c, prefix) ==
    \A k \in DOMAIN c : partialMatchKey(k, prefix) => c[k].isInvalidated

\* nothing was removed and no data was changed between two caches
KeepsEntries(c1, c2) ==
    /\ DOMAIN c2 = DOMAIN c1
    /\ \A k \in DOMAIN c1 : c2[k].data = c1[k].data

\* C2: after invalidateAfterMutation(resource, 'create') every query under
\* (admin, resource, list), (admin, resource, stats) and (admin, dashboard) is
\* stale, no query is removed and no query's data is changed.
C2_CreateRule ==
    \A r \in Resources, id \in Ids \cup {NoId} :
        LET after == invalidateAfterMutation(cache, r, "create", id)
        IN  /\ AllStaleUnder(after, <<"admin", r, "list">>)
            /\ AllStaleUnder(after, <<"admin", r, "stats">>)
            /\ AllStaleUnder(after, <<"admin", "dashboard">>)
            /\ KeepsEntries(cache, after)

C2_Witness ==
    \E r \in Resources :
        /\ lastOp.name = "invalidateAfterMutation"
        /\ IsStale(cache, ListKey(r))
        /\ IsStale(cache, StatsKey(r))

\* C3: after invalidateAfterMutation(resource, 'update', id) the detail query
\* of id, every query under (admin, resource, list) and every query under
\* (admin, dashboard) is stale, and no query is removed.
C3_UpdateRule ==
    \A r \in Resources, id \in Ids :
        LET after == invalidateAfterMutation(cache, r, "update", id)
        IN  /\ AllStaleUnder(after, DetailKey(r, id))
            /\ AllStaleUnder(after, <<"admin", r, "list">>)
            /\ AllStaleUnder(after, <<"admin", "dashboard">>)
            /\ DOMAIN after = DOMAIN cache

C3_Witness ==
    \E r \in Resources, id \in Ids :
        /\ lastOp.name = "invalidateAfterMutation"
        /\ IsStale(cache, DetailKey(r, id))
        /\ \E k \in DashboardKeys : IsStale(cache, k)

\* C4: after invalidateAfterMutation(resource, 'delete', id) there is no query
\* for the detail key of id, every query under (admin, resource, list),
\* (admin, resource, stats) and (admin, dashboard) is stale, and the detail
\* queries of every other id and every other resource are still there.
C4_DeleteRule ==
    \A r \in Resources, id \in Ids :
        LET after == invalidateAfterMutation(cache, r, "delete", id)
        IN  /\ DetailKey(r, id) \notin DOMAIN after
            /\ AllStaleUnder(after, <<"admin", r, "list">>)
            /\ AllStaleUnder(after, <<"admin", r, "stats">>)
            /\ AllStaleUnder(after, <<"admin", "dashboard">>)
            /\ \A k \in DOMAIN cache :
                  (IsDetailKey(k) /\ k # DetailKey(r, id))
                     => (k \in DOMAIN after /\ after[k].data = cache[k].data)

C4_Witness ==
    \E r \in Resources, id \in Ids :
        /\ lastOp.name = "invalidateAfterMutation"
        /\ DetailKey(r, id) \in DOMAIN cache
        /\ ~cache[DetailKey(r, id)].isInvalidated
        /\ IsStale(cache, StatsKey(r))

\* C5 as claimed: after every successful mutation of a mutation hook, the
\* settings hooks included, every query under (admin, dashboard) is stale.
C5_AllHooksInvalidateDashboard ==
    (lastOp.name = "mutate" /\ lastOp.kind = "success")
        => AllStaleUnder(cache, <<"admin", "dashboard">>)

\* C5 as amended: after a successful mutation of a hook other than the two
\* settings hooks every query under (admin, dashboard) is stale; after a
\* successful settings update or reset every query under (admin, settings) is
\* stale, and the dashboard queries keep the staleness they had.
C5_ResourceHooksInvalidateDashboard ==
    \A hook \in Hooks :
        LET after == mutate(cache, TRUE, hook, "success")
        IN  IF hook \in SettingsHooks
            THEN /\ AllStaleUnder(after, <<"admin", "settings">>)
                 /\ \A k \in DashboardKeys \cap DOMAIN cache : after[k] = cache[k]
            ELSE AllStaleUnder(after, <<"admin", "dashboard">>)

C5_Witness ==
    /\ lastOp.name = "mutate"
    /\ lastOp.resource \in Resources
    /\ lastOp.kind = "success"
    /\ \E k \in DashboardKeys : IsStale(cache, k)
    /\ IsStale(cache, ListKey(lastOp.resource))

\* C6: a mutation of a mutation hook that fails (backend error, network error,
\* caller not an admin) changes no query's staleness, data or presence.
C6_NoInvalidationOnFailure ==
    \A hook \in Hooks, admin \in BOOLEAN, outcome \in ApiOutcomes :
        mutationFn(admin, outcome) # "success" => mutate(cache, admin, hook, outcome) = cache

C6_Witness ==
    /\ lastOp.name = "mutate"
    /\ lastOp.resource \in Resources
    /\ lastOp.kind = "error"
    /\ \E k \in DashboardKeys : k \in DOMAIN cache /\ ~cache[k].isInvalidated
    /\ ListKey(lastOp.resource) \in DOMAIN cache
    /\ ~cache[ListKey(lastOp.resource)].isInvalidated

\* the prefixes the cache layer invalidates
Prefixes ==
    {<<"admin", "dashboard">>, <<"admin", "settings">>}
      \cup DashboardKeys
      \cup {<<"admin", r>> : r \in Resources}
      \cup ResourceKeys

\* C7: invalidating a prefix a second time, or handling a realtime event a
\* second time, right after the first, leaves data, staleness and presence of
\* every query as the first left them.
C7_InvalidationIdempotent ==
    /\ \A p \in Prefixes :
          LET once == invalidateQueries(cache, p)
          IN  invalidateQueries(once, p) = once
    /\ invalidateDashboard(invalidateDashboard(cache)) = invalidateDashboard(cache)
    /\ \A r \in Resources, a \in Actions, id \in Ids \cup {NoId} :
          LET once == invalidateAfterMutation(cache, r, a, id)
          IN  invalidateAfterMutation(once, r, a, id) = once
    /\ \A type \in EventTypes :
          LET once == onmessage(cache, type)
          IN  onmessage(once, type) = once

C7_Witness ==
    /\ lastOp.name = "onmessage"
    /\ IsStale(cache, <<"admin", "dashboard", "recent-orders">>)
    /\ \E id \in Ids : IsStale(cache, DetailKey("orders", id))

----------------------------------------------------------------------------
(* Properties of the realtime channel *)

\* C8: in a run of connection failures without an open in between, the
\* reconnects scheduled are at most 5, the n-th with the delay
\* reconnectInterval * n, each delay larger than the one before; the failure
\* after the fifth schedules nothing and reports 'Max reconnection attempts
\* reached' (the branch that calls onError).
C8_ReconnectBackoff ==
    /\ Len(scheduledDelays) = reconnectAttempts
    /\ Len(scheduledDelays) <= 5
    /\ \A i \in DOMAIN scheduledDelays : scheduledDelays[i] = reconnectInterval * i
    /\ \A i \in DOMAIN scheduledDelays : i > 1 => scheduledDelays[i] > scheduledDelays[i - 1]
    /\ lastOp = Op("onerror", "-", "max_reached") =>
          /\ Len(scheduledDelays) = 5
          /\ connectionError = "Max reconnection attempts reached"
          /\ ~isConnected

C8_Witness ==
    /\ lastOp = Op("onerror", "-", "max_reached")
    /\ Len(scheduledDelays) = 5
    /\ connectionError = "Max reconnection attempts reached"

\* C9 as claimed: once the hook is unmounted (its cleanups have run
\* disconnect()), no EventSource it created is open or connecting and no
\* timer is pending whose connect() would open one.
C9_TeardownReleases ==
    ~mounted => (Live(streams) = {} /\ \A t \in timers : ~canConnect(t.admin))

\* C10: an open event sets the attempt counter to 0, and the failure that
\* follows it schedules a reconnect with the shortest delay, as the first of
\* the run.
C10_OpenResetsAttempts ==
    [][/\ lastOp'.name = "onopen" => reconnectAttempts' = 0
       /\ (lastOp.name = "onopen" /\ lastOp'.name = "onerror") =>
             /\ lastOp'.kind = "scheduled"
             /\ reconnectAttempts' = 1
             /\ scheduledDelays' = <<reconnectInterval>>]_vars

C10_Witness ==
    /\ lastOp.name = "onopen"
    /\ reconnectAttempts = 0
    /\ nextTimer > 2
    /\ eventSourceRef >= 2
    /\ streams[eventSourceRef] = "open"

\* C11 as claimed: at any time at most one EventSource created by the hook
\* instance is open or connecting, i.e. connect() never creates a stream
\* while one it created before has not been closed.
C11_SingleStream ==
    Cardinality(Live(streams)) <= 1

----------------------------------------------------------------------------
(* Realtime events against the invalidation table *)

\* the entries the update-class rule marks stale for a resource: its detail
\* and list entries and every entry under (admin, dashboard); for the
\* dashboard itself the entries under (admin, dashboard)
UpdateClassSet(c, resource) ==
    {k \in DOMAIN c :
        \/ partialMatchKey(k, <<"admin", "dashboard">>)
        \/ resource \in Resources /\ partialMatchKey(k, <<"admin", resource, "list">>)
        \/ resource \in Resources /\ partialMatchKey(k, <<"admin", resource, "detail">>)}

\* the entries an operation turned stale
MarkedStale(before, after) ==
    {k \in DOMAIN before : ~before[k].isInvalidated /\ IsStale(after, k)}

\* the resource each event type is about
EventResource(type) ==
    CASE type = "order_update" -> "orders"
      [] type = "product_update" -> "products"
      [] type = "customer_update" -> "customers"
      [] type = "stats_update" -> "dashboard"

\* C12 as claimed: handling an order_update, product_update, customer_update
\* or stats_update event marks stale exactly the fresh entries the
\* update-class rule marks stale for the event's resource: its detail and
\* list entries and every entry under (admin, dashboard).
C12_EventsInvalidateLikeUpdate ==
    \A type \in {"order_update", "product_update", "customer_update", "stats_update"} :
        MarkedStale(cache, onmessage(cache, type))
            = {k \in UpdateClassSet(cache, EventResource(type)) : ~cache[k].isInvalidated}

----------------------------------------------------------------------------
(* Properties of overlapping optimistic updates *)

Resolution(op) ==
    op.name = "updateOptimistically" /\ op.kind \in {"resolved", "rejected"}

\* C14 as claimed: when two overlapping optimistic updates on a key end one
\* after the other, the value of the key after the second has ended is the
\* one the second wrote: its server result if it succeeded, the previous
\* value it captured if it failed.
C14_LastResolverWins ==
    [][(Resolution(lastOp) /\ Resolution(lastOp') /\ calls # EmptyBag /\ calls' = EmptyBag)
          => getQueryData(cache', EndingCall.queryKey)
                = IF lastOp'.kind = "resolved"
                  THEN lastOp'.value
                  ELSE EndingCall.previousData]_vars

----------------------------------------------------------------------------
(* useQuery: the admin query hooks, staleness and fetches *)

\* the staleTime values of CACHE_TIMES, in minutes
CACHE_TIMES ==
    [dashboard |-> [staleTime |-> 2],
     lists     |-> [staleTime |-> 5],
     details   |-> [staleTime |-> 10],
     analytics |-> [staleTime |-> 15]]

\* the hooks that read the lists of the resources; useAdminProducts has the
\* options of useAdminCustomers and is left to it
ListHooks == {"useAdminOrders", "useAdminCustomers", "useAdminCategories"}

\* useAdminDashboard stands for its dashboardOverviewQuery
QueryHooks == {"useAdminDashboard", "useAdminDashboardOverview"} \cup ListHooks

\* the resource of a list hook
ListHookResource(hook) ==
    CASE hook = "useAdminOrders" -> "orders"
      [] hook = "useAdminCustomers" -> "customers"
      [] hook = "useAdminCategories" -> "categories"

\* the queryKey option of each hook; the list hooks put their params
\* argument behind (admin, resource, list)
HookKey(hook) ==
    IF hook \in ListHooks
    THEN <<"admin", ListHookResource(hook), "list", "params">>
    ELSE <<"admin", "dashboard", "overview">>

\* the staleTime option of each hook, in minutes
HookStaleTime(hook) ==
    CASE hook = "useAdminDashboard" -> 2
      [] hook = "useAdminDashboardOverview" -> 2
      [] hook = "useAdminOrders" -> 1
      [] hook = "useAdminCustomers" -> 2
      [] hook = "useAdminCategories" -> 5

\* the enabled option: isAdmin (and the id or the enabled argument, given)
queryEnabled(admin) == admin

\* the queries warmCache prefetches
WarmQueries ==
    {[queryKey |-> <<"admin", "dashboard", "stats">>, staleTime |-> CACHE_TIMES.dashboard.staleTime],
     [queryKey |-> <<"admin", "dashboard", "overview">>, staleTime |-> CACHE_TIMES.dashboard.staleTime],
     [queryKey |-> ListKey("orders"), staleTime |-> CACHE_TIMES.lists.staleTime]}

\* a query as the cache builds it for a key it does not hold
NewQuery == [hasData |-> FALSE, age |-> 0, fetchStatus |-> "idle"]

\* queryCache.build: the query of the key, a new one if there is none
build(qs, keys) ==
    [k \in DOMAIN qs \cup keys |-> IF k \in DOMAIN qs THEN qs[k] ELSE NewQuery]

\* query.isStaleByTime(staleTime): no data yet, or dataUpdatedAt + staleTime
\* is not after the current time (age = now - dataUpdatedAt)
isStaleByTime(q, staleTime) ==
    ~q.hasData \/ q.age >= staleTime

\* (mutant) every read of a stale query invokes the query function
startsFetch_always(q) ==
    TRUE

\* query.fetch: a fetch that is running is joined (its promise is returned);
\* the query function is invoked only when the query is idle
startsFetch(q) ==
    q.fetchStatus = "idle"

\* the keys of wanted whose query function query.fetch invokes
invoked(qs, wanted) ==
    {k \in wanted : startsFetch(qs[k])}

\* the queries after query.fetch on the keys of wanted
fetching(qs, wanted) ==
    [k \in DOMAIN qs |-> IF k \in wanted THEN [qs[k] EXCEPT !.fetchStatus = "fetching"] ELSE qs[k]]

\* a component that uses the hook renders: the observer builds the query
\* and fetches when the query is stale for the hook's staleTime
UseQuery(hook) ==
    LET key == HookKey(hook)
        built == build(queries, {key})
        wanted == IF isStaleByTime(built[key], HookStaleTime(hook)) THEN {key} ELSE {}
    IN  /\ queryEnabled(isAdmin)
        /\ Cardinality(DOMAIN built) <= MaxQueries
        /\ queries' = fetching(built, wanted)
        /\ inflight' = inflight (+) SetToBag(invoked(built, wanted))
        /\ lastOp' = Op("useQuery", "-",
                         IF wanted # {} /\ invoked(built, wanted) = {} THEN "joined" ELSE "-")
        /\ UNCHANGED <<cacheVars, isAdmin, channelVars, keyCall, run, extraVars>>

\* AdminCacheManager.warmCache: prefetchQuery of three queries, each
\* fetched when it is stale for the staleTime given
WarmCache ==
    LET keys == {w.queryKey : w \in WarmQueries}
        built == build(queries, keys)
        wanted == {w.queryKey : w \in {x \in WarmQueries :
                                          isStaleByTime(built[x.queryKey], x.staleTime)}}
    IN  /\ Cardinality(DOMAIN built) <= MaxQueries
        /\ queries' = fetching(built, wanted)
        /\ inflight' = inflight (+) SetToBag(invoked(built, wanted))
        /\ UNCHANGED <<cacheVars, isAdmin, lastOp, channelVars, keyCall, run, extraVars>>

\* an invocation of a query function settles: with data, which the query
\* stores with the time, or with an error
FetchSettles(key, ok) ==
    /\ BagIn(key, inflight)
    /\ inflight' = inflight (-) SetToBag({key})
    /\ queries' = [queries EXCEPT ![key] =
                      IF ok
                      THEN [hasData |-> TRUE, age |-> 0, fetchStatus |-> "idle"]
                      ELSE [@ EXCEPT !.fetchStatus = "idle"]]
    /\ UNCHANGED <<cacheVars, isAdmin, lastOp, channelVars, keyCall, run, extraVars>>

\* a minute passes: the data of every query is a minute older
Tick ==
    /\ \E k \in DOMAIN queries : queries[k].hasData /\ queries[k].age < MaxTime
    /\ queries' = [k \in DOMAIN queries |->
                      IF queries[k].hasData /\ queries[k].age < MaxTime
                      THEN [queries[k] EXCEPT !.age = @ + 1]
                      ELSE queries[k]]
    /\ UNCHANGED <<cacheVars, isAdmin, lastOp, channelVars, inflight, keyCall, run, extraVars>>

NextQuery ==
    \/ \E hook \in QueryHooks : UseQuery(hook)
    \/ WarmCache
    \/ \E key \in DOMAIN queries, ok \in BOOLEAN : FetchSettles(key, ok)
    \/ Tick

SpecQuery == Init /\ [][NextQuery]_vars

ListStaleTimes ==
    [k \in {HookKey(h) : h \in ListHooks} \cup {ListKey("orders")} |->
        IF k = ListKey("orders")
        THEN CACHE_TIMES.lists.staleTime
        ELSE HookStaleTime(CHOOSE h \in ListHooks : HookKey(h) = k)]

\* C18 as claimed: a list entry (orders, customers, categories; the orders
\* list warmCache prefetches) fetched at T is fresh for its reader at T + 4
\* minutes and stale at T + 6 minutes.
C18_ListsFreshFiveMinutes ==
    \A k \in DOMAIN ListStaleTimes :
        (k \in DOMAIN queries /\ queries[k].hasData) =>
            /\ queries[k].age = 4 => ~isStaleByTime(queries[k], ListStaleTimes[k])
            /\ queries[k].age = 6 => isStaleByTime(queries[k], ListStaleTimes[k])

----------------------------------------------------------------------------
(* ADMIN_CACHE_KEYS with arguments, and the hash the query cache files a key under *)

ParamFields == {"page", "status"}

ParamValues == {"1", "2", "3"}

\* a params object: its fields in insertion order, each <<name, value>>
Obj(fields) == [defined |-> TRUE, fields |-> fields]

\* the params argument left out
NoParams == [defined |-> FALSE, fields |-> << >>]

\* the params objects of at most two fields, in every insertion order
ParamObjects ==
    {Obj(<< >>)}
      \cup {Obj(<< <<f, v>> >>) : f \in ParamFields, v \in ParamValues}
      \cup {Obj(<< <<f[1], v1>>, <<f[2], v2>> >>) :
                f \in {<<"page", "status">>, <<"status", "page">>},
                v1 \in ParamValues, v2 \in ParamValues}

\* Boolean(x) for the strings given as arguments
Truthy(x) == x \notin {Undefined, ""}

\* [...].filter(Boolean) on the string segments
filterBoolean(segments) == SelectSeq(segments, Truthy)

\* a call of a builder: which one, for which resource, with which arguments
Request(builder, resource, params, args) ==
    [builder |-> builder, resource |-> resource, params |-> params, args |-> args]

Requests ==
    {Request("list", r, p, << >>) : r \in Resources, p \in ParamObjects \cup {NoParams}}
      \cup {Request("detail", r, NoParams, <<id>>) : r \in Resources, id \in Ids}
      \cup {Request("stats", r, NoParams, << >>) : r \in Resources}
      \cup {Request("dashboard.stats", "-", NoParams, <<t>>) : t \in {Undefined, "", "30"}}
      \cup {Request("dashboard.overview", "-", NoParams, << >>)}
      \cup {Request("dashboard.salesAnalytics", "-", NoParams, <<period, chartType>>) :
                period \in {"daily", "weekly"}, chartType \in {"area", "bar"}}
      \cup {Request("dashboard.activity", "-", NoParams, <<limit>>) : limit \in {"10", "20"}}

\* the key a builder of ADMIN_CACHE_KEYS returns: its string segments and,
\* for a list key with params, the params object as last segment
buildKey(request) ==
    CASE request.builder = "list" ->
            [segments |-> filterBoolean(<<"admin", request.resource, "list">>),
             object |-> request.params]
      [] request.builder = "detail" ->
            [segments |-> <<"admin", request.resource, "detail", request.args[1]>>,
             object |-> NoParams]
      [] request.builder = "stats" ->
            [segments |-> <<"admin", request.resource, "stats">>, object |-> NoParams]
      [] request.builder = "dashboard.stats" ->
            [segments |-> filterBoolean(<<"admin", "dashboard", "stats", request.args[1]>>),
             object |-> NoParams]
      [] request.builder = "dashboard.overview" ->
            [segments |-> <<"admin", "dashboard", "overview">>, object |-> NoParams]
      [] request.builder = "dashboard.salesAnalytics" ->
            [segments |-> <<"admin", "analytics", "sales", request.args[1], request.args[2]>>,
             object |-> NoParams]
      [] request.builder = "dashboard.activity" ->
            [segments |-> <<"admin", "activity", request.args[1]>>, object |-> NoParams]

\* the field names in the order Object.keys(...).sort() gives
FieldOrder == <<"page", "status">>

\* the fields of an object, sorted by name
sortedFields(fields) ==
    LET names == SelectSeq(FieldOrder, LAMBDA f : \E i \in DOMAIN fields : fields[i][1] = f)
    IN  [i \in DOMAIN names |->
            fields[CHOOSE j \in DOMAIN fields : fields[j][1] = names[i]]]

\* (mutant) the hash keeps the insertion order of the fields
hashKey_insertionOrder(key) ==
    key

\* hashKey(queryKey): JSON.stringify with the fields of every object sorted;
\* queries with the same hash are the same cache entry
hashKey(key) ==
    [key EXCEPT !.object.fields = sortedFields(@)]

\* a builder is called and its key is given to the query client
BuildKey(request) ==
    /\ keyCall' = [last |-> [request |-> request, key |-> buildKey(request)],
                   prev |-> keyCall.last]
    /\ UNCHANGED <<cacheVars, isAdmin, lastOp, channelVars, queries, inflight, run, extraVars>>

NextKeys == \E request \in Requests : BuildKey(request)

SpecKeys == Init /\ [][NextKeys]_vars

\* two params arguments with the same fields and values
SameFields(p1, p2) ==
    /\ p1.defined = p2.defined
    /\ {p1.fields[i] : i \in DOMAIN p1.fields} = {p2.fields[i] : i \in DOMAIN p2.fields}

\* two requests that differ at most in the insertion order of params
SameRequest(r1, r2) ==
    /\ r1.builder = r2.builder
    /\ r1.resource = r2.resource
    /\ r1.args = r2.args
    /\ SameFields(r1.params, r2.params)

----------------------------------------------------------------------------
(* Fetching with retries: the retry option of the query hooks and ApiClient.request *)

\* the query hooks with a retry predicate that are followed here
RetryHooks == {"useAdminRecentOrders", "useAdminTopProducts", "useAdminDashboardOverview",
               "useAdminOrders", "useAdminProduct"}

\* what a request ends with: an HTTP status, or no response at all
Statuses == {"200", "401", "403", "500", "network"}

\* (mutant) every hook allows three retries
RetryLimit_three(hook) ==
    3

\* the bound in the retry predicate of each hook: failureCount < limit
RetryLimit(hook) ==
    IF hook \in {"useAdminRecentOrders", "useAdminTopProducts"} THEN 1 ELSE 2

\* whether the Enhanced method the hook's queryFn calls rethrows an error
\* (getAdminProductEnhanced) or returns fallback data for it
Rethrows(hook) == hook = "useAdminProduct"

\* getUserFriendlyErrorMessage for a response without a message of its own
getUserFriendlyErrorMessage(status) ==
    CASE status = "401" -> <<"You need to log in to access this feature.">>
      [] status = "403" -> <<"You don't have permission to perform this action.">>
      [] status = "500" -> <<"Server error. Please try again later.">>
      [] OTHER -> <<"Something went wrong. Please try again later.">>

\* message.includes(text), the message as its words
includes(message, text) ==
    \E i \in DOMAIN message : message[i] = text

\* error instanceof Error && error.message.includes('401')
isAuthError(error) ==
    includes(error.message, "401")

\* the retry option: (failureCount, error) => ...
retry(hook, failureCount, error) ==
    IF isAuthError(error) THEN FALSE ELSE failureCount < RetryLimit(hook)

\* ApiClient.request: a 401 on an endpoint other than login and refresh
\* starts refreshTokens()
refreshes(status) ==
    status = "401"

\* ApiClient.request for one call: the requests it issues for the endpoint
\* (their statuses), whether it returns data, the error it throws, and
\* whether it logs out and redirects to /login
request(s1, refreshSuccess, s2) ==
    IF refreshes(s1)
    THEN IF refreshSuccess
         THEN [requests |-> <<s1, s2>>,
               ok |-> (s2 = "200"),
               message |-> IF s2 = "network"
                           THEN <<"Network error. Please check your internet connection.">>
                           ELSE getUserFriendlyErrorMessage(s2),
               sessionExpired |-> FALSE]
         ELSE [requests |-> <<s1>>,
               ok |-> FALSE,
               message |-> <<"Session expired. Please login again.">>,
               sessionExpired |-> TRUE]
    ELSE [requests |-> <<s1>>,
          ok |-> (s1 = "200"),
          message |-> IF s1 = "network"
                      THEN <<"Network error. Please check your internet connection.">>
                      ELSE getUserFriendlyErrorMessage(s1),
          sessionExpired |-> FALSE]

\* a hook's query starts to fetch
StartFetch(hook) ==
    /\ run.state # "fetching"
    /\ run' = [NoRun EXCEPT !.hook = hook, !.state = "fetching"]
    /\ UNCHANGED <<cacheVars, isAdmin, lastOp, channelVars, queries, inflight, keyCall, extraVars>>

\* the retryer runs the queryFn once: the Enhanced method calls
\* ApiClient.request and returns data, returns fallback data for an error or
\* rethrows it; on an error the retry predicate decides between another
\* attempt and the error state
Attempt(s1, refreshSuccess, s2) ==
    LET res == request(s1, refreshSuccess, s2)
        error == [message |-> res.message]
        thrown == ~res.ok /\ Rethrows(run.hook)
    IN  /\ run.state = "fetching"
        /\ run' = [run EXCEPT
                     !.attempts = @ + 1,
                     !.requests = @ \o res.requests,
                     !.sessionExpired = @ \/ res.sessionExpired,
                     !.error = IF thrown THEN res.message ELSE << >>,
                     !.failureCount = IF thrown /\ retry(run.hook, run.failureCount, error)
                                      THEN @ + 1 ELSE @,
                     !.state = IF ~thrown THEN "success"
                               ELSE IF retry(run.hook, run.failureCount, error)
                                    THEN "fetching" ELSE "error"]
        /\ UNCHANGED <<cacheVars, isAdmin, lastOp, channelVars, queries, inflight, keyCall, extraVars>>

NextRetry ==
    \/ \E hook \in RetryHooks : StartFetch(hook)
    \/ \E s1 \in Statuses, refreshSuccess \in BOOLEAN, s2 \in Statuses :
            Attempt(s1, refreshSuccess, s2)

SpecRetry == Init /\ [][NextRetry]_vars

Unauthorized == {"401", "403"}

\* C19 as claimed: a request answered with 401 or 403 is not issued again
\* in the same fetch, neither by a retry of the query nor by the API
\* client, and the session-expiry handling has run.
C19_NoRetryOnUnauthorized ==
    /\ \A i \in DOMAIN run.requests :
          run.requests[i] \in Unauthorized => i = Len(run.requests)
    /\ (\E i \in DOMAIN run.requests : run.requests[i] \in Unauthorized)
          => run.sessionExpired

\* C20: for a hook with a retry predicate, a fetch that fails is retried at
\* most 2 times, 3 attempts in all (at most once, 2 attempts, for recent
\* orders and top products); the predicate allows no retry beyond that for
\* any error, and once the error is surfaced no attempt follows.
C20_BoundedRetry ==
    LET limit == IF run.hook \in {"useAdminRecentOrders", "useAdminTopProducts"} THEN 1 ELSE 2
    IN  run.hook \in RetryHooks =>
            /\ run.failureCount <= limit
            /\ run.attempts <= limit + 1
            /\ \A n \in 0..4, status \in Statuses :
                  retry(run.hook, n, [message |-> getUserFriendlyErrorMessage(status)])
                      => n < limit
            /\ run.state = "error" =>
                  /\ run.failureCount = limit
                  /\ run.attempts = limit + 1
                  /\ \A s1 \in Statuses, b \in BOOLEAN, s2 \in Statuses : ~ENABLED Attempt(s1, b, s2)

C20_Witness ==
    /\ run.hook = "useAdminProduct"
    /\ run.state = "error"
    /\ run.attempts = 3
    /\ run.requests = <<"500", "500", "500">>

----------------------------------------------------------------------------
(* AdminCacheManager.cleanup *)

\* 60 * 60 * 1000 ms, in minutes
oneHour == 60

\* the queries cleanup is run against: a list key without params (warmCache),
\* the same list with params (useAdminOrders), a dashboard key, a detail key
CleanupKeys ==
    {ListKey("orders"), <<"admin", "orders", "list", "params">>,
     <<"admin", "dashboard", "stats">>, DetailKey("orders", "1")}

\* a query as the cache builds it: no data (dataUpdatedAt = 0), no observer
NewEntry == [hasData |-> FALSE, idle |-> 0, observers |-> 0]

\* lastUpdated < oneHourAgo: dataUpdatedAt is 0 for a query that never had
\* data, and idle = Date.now() - dataUpdatedAt for the others
updatedBefore(e) ==
    ~e.hasData \/ e.idle > oneHour

\* the condition of the if: lastUpdated < oneHourAgo && !query.getObserversCount()
idleOld(e) ==
    updatedBefore(e) /\ e.observers = 0

\* cleanup: for every query of getAll() that is old and has no observer,
\* removeQueries({ queryKey: query.queryKey }), which removes every query
\* whose key starts with that key
cleanup(es) ==
    LET hit == {k \in DOMAIN es : idleOld(es[k])}
    IN  [k \in {q \in DOMAIN es : \A h \in hit : ~partialMatchKey(q, h)} |-> es[k]]

\* a component using a query hook mounts: the query is built if needed and
\* gets an observer
Subscribe(key) ==
    LET built == IF key \in DOMAIN entries THEN entries[key] ELSE NewEntry
    IN  /\ built.observers < MaxObservers
        /\ entries' = [k \in DOMAIN entries \cup {key} |->
                          IF k = key THEN [built EXCEPT !.observers = @ + 1] ELSE entries[k]]
        /\ UNCHANGED <<coreVars, lastOp, exceptEntries>>

\* the component unmounts
Unsubscribe(key) ==
    /\ key \in DOMAIN entries
    /\ entries[key].observers > 0
    /\ entries' = [entries EXCEPT ![key].observers = @ - 1]
    /\ UNCHANGED <<coreVars, lastOp, exceptEntries>>

\* prefetchQuery (warmCache): the query is built without an observer
Prefetch(key) ==
    /\ key \notin DOMAIN entries
    /\ entries' = [k \in DOMAIN entries \cup {key} |->
                      IF k = key THEN NewEntry ELSE entries[k]]
    /\ UNCHANGED <<coreVars, lastOp, exceptEntries>>

\* the query function of a query resolves: dataUpdatedAt = Date.now()
Loaded(key) ==
    /\ key \in DOMAIN entries
    /\ entries' = [entries EXCEPT ![key] = [@ EXCEPT !.hasData = TRUE, !.idle = 0]]
    /\ UNCHANGED <<coreVars, lastOp, exceptEntries>>

\* half an hour passes
HalfHour ==
    /\ \E k \in DOMAIN entries : entries[k].hasData /\ entries[k].idle < MaxIdle
    /\ entries' = [k \in DOMAIN entries |->
                      IF entries[k].hasData
                      THEN [entries[k] EXCEPT !.idle = IF @ + 30 > MaxIdle THEN MaxIdle ELSE @ + 30]
                      ELSE entries[k]]
    /\ UNCHANGED <<coreVars, lastOp, exceptEntries>>

\* the gcTime of a query without observers runs out: the cache drops it
Gc(key) ==
    /\ key \in DOMAIN entries
    /\ entries[key].observers = 0
    /\ entries' = [k \in DOMAIN entries \ {key} |-> entries[k]]
    /\ UNCHANGED <<coreVars, lastOp, exceptEntries>>

Cleanup ==
    /\ entries' = cleanup(entries)
    /\ lastOp' = Op("cleanup", "-", "-")
    /\ UNCHANGED <<coreVars, exceptEntries>>

NextCleanup ==
    \/ \E key \in CleanupKeys : Subscribe(key)
    \/ \E key \in CleanupKeys : Unsubscribe(key)
    \/ \E key \in CleanupKeys : Prefetch(key)
    \/ \E key \in CleanupKeys : Loaded(key)
    \/ HalfHour
    \/ \E key \in CleanupKeys : Gc(key)
    \/ Cleanup

SpecCleanup == Init /\ [][NextCleanup]_vars

\* C21 as claimed: cleanup() removes a query only if that query has no
\* observer and was last updated more than one hour ago (a query that never
\* had data counts as old); every query with an observer or updated within
\* the last hour is still in the cache afterwards.
C21_CleanupRemovesOnlyIdleOld ==
    \A k \in DOMAIN entries :
        k \notin DOMAIN cleanup(entries) => idleOld(entries[k])

----------------------------------------------------------------------------
(* The delete hooks *)

DeleteHooks == {"useDeleteProduct", "useDeleteCategory", "useDeleteCustomer"}

\* C22 as claimed: after a delete hook succeeds for an item, the cache holds
\* no query for the detail key of that item.
C22_DeleteHooksEvictDetail ==
    \A hook \in DeleteHooks, id \in Ids :
        DetailKey(HookResource(hook), id) \notin DOMAIN mutate(cache, TRUE, hook, "success")

----------------------------------------------------------------------------
(* The API proxy routes: GET of orders, customers, products, activity and
   analytics/sales *)

ProxyRoutes == {"orders", "customers", "products", "activity", "analytics/sales"}

\* the period parameter of analytics/sales: one of the three it accepts, or another
Periods == {"daily", "weekly", "other"}

\* what the backend does with the request the route sends: a 2xx answer with
\* a JSON body, a 2xx answer whose body response.json() rejects, an error
\* status, or no answer (fetch rejects)
BackendOutcomes == {"200", "200_invalid_body", "400", "401", "403", "404", "500", "network"}

\* (mutant) only 401 is passed through
isUnauthorizedStatus_only401(status) ==
    status = "401"

\* response.status === 401 || response.status === 403
isUnauthorizedStatus(status) ==
    status \in {"401", "403"}

\* the requests a route accepts before it calls the backend: analytics/sales
\* answers 400 for a period outside daily, weekly, monthly
validPeriod(route, period) ==
    route # "analytics/sales" \/ period \in {"daily", "weekly", "monthly"}

ProxyResponse(status, success, data) ==
    [status |-> status, success |-> success, data |-> data]

\* GET: the response for a request, given what the backend does
GET(route, accessToken, period, backend) ==
    IF ~accessToken
    THEN ProxyResponse("401", FALSE, "none")
    ELSE IF ~validPeriod(route, period)
    THEN ProxyResponse("400", FALSE, "none")
    ELSE IF backend = "200"
    THEN ProxyResponse("200", TRUE, "backend")
    ELSE IF backend # "network" /\ backend # "200_invalid_body" /\ isUnauthorizedStatus(backend)
    THEN ProxyResponse(backend, FALSE, "none")
    ELSE ProxyResponse("200", TRUE, "fallback")

\* a GET request reaches a route and is answered
ProxyGet(route, accessToken, period, backend) ==
    /\ proxyCall' = [request |-> [route |-> route, accessToken |-> accessToken,
                                  period |-> period, backend |-> backend],
                     response |-> GET(route, accessToken, period, backend)]
    /\ UNCHANGED <<coreVars, lastOp, exceptProxyCall>>

NextProxy ==
    \E route \in ProxyRoutes, accessToken \in BOOLEAN, period \in Periods,
       backend \in BackendOutcomes : ProxyGet(route, accessToken, period, backend)

SpecProxy == Init /\ [][NextProxy]_vars

\* the route has sent the request to the backend
BackendCalled(req) ==
    req.route \in ProxyRoutes /\ req.accessToken /\ validPeriod(req.route, req.period)

\* C23: a GET proxy route answers 200 with success = true and its fallback
\* data whenever its call of the backend fails for a reason other than
\* authorization (no answer, an unreadable body, an error status other than
\* 401 and 403); when the access token is missing or the backend answers 401
\* or 403 it answers with that error status, success = false and no
\* fallback data.
C23_FallbackLooksLikeSuccess ==
    LET req == proxyCall.request
        res == proxyCall.response
    IN  /\ (BackendCalled(req) /\ req.backend \in BackendOutcomes \ {"200", "401", "403"})
              => (res.status = "200" /\ res.success /\ res.data = "fallback")
        /\ (req.route \in ProxyRoutes /\ ~req.accessToken)
              => (res.status = "401" /\ ~res.success /\ res.data # "fallback")
        /\ (BackendCalled(req) /\ req.backend \in {"401", "403"})
              => (res.status = req.backend /\ ~res.success /\ res.data # "fallback")

C23_Witness ==
    /\ proxyCall.request.route = "orders"
    /\ proxyCall.request.accessToken
    /\ proxyCall.request.backend = "network"
    /\ proxyCall.response = ProxyResponse("200", TRUE, "fallback")

----------------------------------------------------------------------------
(* The events route: GET and the ReadableStream it returns.  Time is counted
   in steps of 30 seconds. *)

\* setInterval(..., 30000): every step
statsEvery == 1

\* setInterval(..., 60000): every second step
orderEvery == 2

\* setTimeout(..., 30 * 60 * 1000): after 60 steps
sessionCeiling == 60

\* an operation of the controller on the stream: on a readable stream it
\* takes effect; on a closed stream enqueue and close throw a TypeError and
\* the operation is recorded in onClosed
controllerOp(sv, op) ==
    IF sv.stream = "readable"
    THEN [sv EXCEPT !.stream = IF op = "close" THEN "closed" ELSE @, !.last = op]
    ELSE [sv EXCEPT !.onClosed = @ \cup {op}, !.last = op]

\* sendEvent: controller.enqueue(encoder.encode(message))
sendEvent(sv) ==
    controllerOp(sv, "enqueue")

\* cleanup: clearInterval of both intervals, and of nothing else
cleanupTimers(sv) ==
    [sv EXCEPT !.statsInterval = FALSE, !.orderInterval = FALSE]

\* the body of the abort listener and of the setTimeout callback
cleanupAndClose(sv) ==
    controllerOp(cleanupTimers(sv), "close")

\* GET with an access token: start(controller) sends the connected event,
\* sets the two intervals, the abort listener and the timeout
ServerGet ==
    /\ server.stream = "none"
    /\ server' = sendEvent([server EXCEPT !.stream = "readable", !.statsInterval = TRUE,
                                          !.orderInterval = TRUE, !.timeout = TRUE])
    /\ UNCHANGED <<coreVars, lastOp, exceptServer>>

\* 30 seconds pass: the interval callbacks that are due and still set run
HalfMinute ==
    LET t == server.time + 1
        s1 == [server EXCEPT !.time = t]
        s2 == IF s1.statsInterval /\ t % statsEvery = 0 THEN sendEvent(s1) ELSE s1
        s3 == IF s2.orderInterval /\ t % orderEvery = 0 THEN sendEvent(s2) ELSE s2
    IN  /\ server.stream # "none"
        /\ server.time < sessionCeiling
        /\ server' = s3
        /\ UNCHANGED <<coreVars, lastOp, exceptServer>>

\* the setTimeout callback runs at the session ceiling
TimeoutFires ==
    /\ server.timeout
    /\ server.time = sessionCeiling
    /\ server' = cleanupAndClose([server EXCEPT !.timeout = FALSE])
    /\ UNCHANGED <<coreVars, lastOp, exceptServer>>

\* the client disconnects: request.signal fires abort, once
Abort ==
    /\ server.stream # "none"
    /\ ~server.aborted
    /\ server' = cleanupAndClose([server EXCEPT !.aborted = TRUE])
    /\ UNCHANGED <<coreVars, lastOp, exceptServer>>

NextServer ==
    \/ ServerGet
    \/ HalfMinute
    \/ TimeoutFires
    \/ Abort

SpecServer == Init /\ [][NextServer]_vars

\* C24 as claimed: after the stream was closed by the server (on the abort
\* of the client or at the session ceiling) the server performs no further
\* operation on it: no event is enqueued and it is not closed again.
C24_NoOperationAfterClose ==
    server.onClosed = {}

----------------------------------------------------------------------------
(* The dashboard key group and the dashboard hooks *)

\* the timeRange option of useAdminDashboard: left out, or a string
TimeRangeOptions == {NoId, "", "7", "30"}

\* const { timeRange = '30' } = options
timeRangeOf(option) ==
    IF option = NoId THEN "30" ELSE option

\* ADMIN_CACHE_KEYS.dashboard.stats(timeRange): filter(Boolean) drops an
\* undefined or empty timeRange
dashboardStats(timeRange) ==
    IF timeRange = NoId \/ timeRange = ""
    THEN <<"admin", "dashboard", "stats">>
    ELSE <<"admin", "dashboard", "stats", timeRange>>

\* ADMIN_CACHE_KEYS.dashboard.salesAnalytics(period, chartType)
salesAnalytics(period, chartType) ==
    <<"admin", "analytics", "sales", period, chartType>>

\* ADMIN_CACHE_KEYS.dashboard.activity(limit)
activity(limit) ==
    <<"admin", "activity", limit>>

\* the key dashboardStatsQuery of useAdminDashboard reads
dashboardStatsQueryKey(option) ==
    dashboardStats(timeRangeOf(option))

\* ADMIN_QUERY_KEYS.dashboard.stats, the key updateStatsOptimistically writes
ADMIN_QUERY_KEYS_stats == <<"admin", "dashboard", "stats">>

\* the keys the builders of ADMIN_CACHE_KEYS.dashboard produce
DashboardGroupKeys ==
    {dashboardStats(t) : t \in TimeRangeOptions}
        \cup {<<"admin", "dashboard", "overview">>, <<"admin", "dashboard", "recent-orders">>,
              <<"admin", "dashboard", "top-products">>, <<"admin", "dashboard", "recent-customers">>}
        \cup {salesAnalytics("daily", "area"), activity("10")}

\* updateStatsOptimistically(updater), with an updater that returns value
UpdateStatsOptimistically(value) ==
    /\ ADMIN_QUERY_KEYS_stats \in DOMAIN cache \/ Cardinality(DOMAIN cache) < MaxEntries
    /\ cache' = setQueryData(cache, ADMIN_QUERY_KEYS_stats, value)
    /\ lastOp' = OpValue("updateStatsOptimistically", "-", value)
    /\ UNCHANGED <<isAdmin, calls, pendingUpdates, channelVars, queryVars>>

NextDashboard ==
    \/ \E key \in DashboardGroupKeys, data \in ServerData : Fetch(key, data)
    \/ \E value \in {"b", "c"} : UpdateStatsOptimistically(value)
    \/ InvalidateDashboard

SpecDashboard == Init /\ [][NextDashboard]_vars

\* C25 as claimed: the value updateStatsOptimistically writes is the value
\* of the query dashboardStatsQuery of useAdminDashboard reads, for every
\* timeRange option.
C25_OptimisticStatsVisible ==
    lastOp.name = "updateStatsOptimistically" =>
        \A option \in TimeRangeOptions :
            getQueryData(cache, dashboardStatsQueryKey(option)) = lastOp.value

\* C26 as claimed: invalidateDashboard() marks stale every cached query whose
\* key is produced by a builder of ADMIN_CACHE_KEYS.dashboard.
C26_DashboardInvalidationCoversGroup ==
    LET after == invalidateDashboard(cache)
    IN  \A k \in DOMAIN after \cap DashboardGroupKeys : after[k].isInvalidated

----------------------------------------------------------------------------
(* getAdminCacheManager and useAdminCacheManager *)

\* getAdminCacheManager: the singleton after the call, which is the manager
\* returned; a manager is constructed only while the singleton is null
getAdminCacheManager(singleton, queryClient) ==
    IF singleton = 0 THEN queryClient ELSE singleton

\* a call on the manager returned, here invalidateDashboard: it acts on
\* this.queryClient
managerInvalidate(cs, manager) ==
    [cs EXCEPT ![manager] = invalidateDashboard(@)]

\* new QueryClient(): a client with an empty cache
NewQueryClient ==
    /\ Len(clients) < MaxClients
    /\ clients' = Append(clients, << >>)
    /\ UNCHANGED <<coreVars, lastOp, exceptManager, adminCacheManager, managerCall>>

\* a dashboard query of a client gets data
ClientFetch(c) ==
    /\ clients' = [clients EXCEPT ![c] = setQueryData(@, <<"admin", "dashboard", "stats">>, "a")]
    /\ UNCHANGED <<coreVars, lastOp, exceptManager, adminCacheManager, managerCall>>

\* useAdminDashboard and the like: getAdminCacheManager(queryClient) with
\* the client of the caller, and a call on the manager returned
GetAdminCacheManager(c) ==
    LET manager == getAdminCacheManager(adminCacheManager, c)
    IN  /\ adminCacheManager' = manager
        /\ clients' = managerInvalidate(clients, manager)
        /\ managerCall' = [client |-> c, actedOn |-> manager]
        /\ UNCHANGED <<coreVars, lastOp, exceptManager>>

\* useAdminCacheManager: new QueryClient(), getAdminCacheManager of it, and
\* a call on the manager returned
UseAdminCacheManager ==
    LET c == Len(clients) + 1
        manager == getAdminCacheManager(adminCacheManager, c)
    IN  /\ Len(clients) < MaxClients
        /\ adminCacheManager' = manager
        /\ clients' = managerInvalidate(Append(clients, << >>), manager)
        /\ managerCall' = [client |-> c, actedOn |-> manager]
        /\ UNCHANGED <<coreVars, lastOp, exceptManager>>

NextManager ==
    \/ NewQueryClient
    \/ \E c \in 1..Len(clients) : ClientFetch(c)
    \/ \E c \in 1..Len(clients) : GetAdminCacheManager(c)
    \/ UseAdminCacheManager

SpecManager == Init /\ [][NextManager]_vars

\* C27 as claimed: whatever calls of getAdminCacheManager and
\* useAdminCacheManager came before, the manager getAdminCacheManager(c)
\* returns acts on the client c.
C27_ManagerActsOnCallersClient ==
    managerCall.client # 0 => managerCall.actedOn = managerCall.client

----------------------------------------------------------------------------
(* ApiClient.request and refreshTokens: several requests at a time.  A call
   of request is in one of the phases
     fetching    await fetch(url, config)
     refreshing  await this.refreshTokens(): its POST /auth/refresh-token
     retrying    await fetch(url, retryConfig)
     ok, failed, expired   returned, thrown an ApiError, thrown session expired *)

\* the endpoints of the admin methods: none of them is an auth endpoint
isAuthEndpoint(endpoint) ==
    endpoint \in {"/auth/refresh-token", "/auth/login"}

\* the phase of a call after the response to its first fetch
afterResponse(endpoint, status) ==
    IF status = "401" /\ ~isAuthEndpoint(endpoint)
    THEN "refreshing"
    ELSE IF status = "200" THEN "ok" ELSE "failed"

\* a caller calls request(endpoint) of an admin method
ApiRequest ==
    /\ Len(apiRequests) < MaxRequests
    /\ apiRequests' = Append(apiRequests, "fetching")
    /\ UNCHANGED <<coreVars, lastOp, exceptApi, refreshPromise>>

\* the first fetch of a call is answered
ApiResponse(r, status) ==
    /\ apiRequests[r] = "fetching"
    /\ apiRequests' = [apiRequests EXCEPT ![r] = afterResponse("/admin/orders", status)]
    /\ UNCHANGED <<coreVars, lastOp, exceptApi, refreshPromise>>

\* the refreshTokens call of a request settles: true, or false
RefreshSettles(r, refreshSuccess) ==
    /\ apiRequests[r] = "refreshing"
    /\ apiRequests' = [apiRequests EXCEPT ![r] = IF refreshSuccess THEN "retrying" ELSE "expired"]
    /\ UNCHANGED <<coreVars, lastOp, exceptApi, refreshPromise>>

\* the second fetch of a call is answered
RetryResponse(r, status) ==
    /\ apiRequests[r] = "retrying"
    /\ apiRequests' = [apiRequests EXCEPT ![r] = IF status = "200" THEN "ok" ELSE "failed"]
    /\ UNCHANGED <<coreVars, lastOp, exceptApi, refreshPromise>>

NextApi ==
    \/ ApiRequest
    \/ \E r \in 1..Len(apiRequests), status \in Statuses \ {"network"} : ApiResponse(r, status)
    \/ \E r \in 1..Len(apiRequests), refreshSuccess \in BOOLEAN : RefreshSettles(r, refreshSuccess)
    \/ \E r \in 1..Len(apiRequests), status \in Statuses \ {"network"} : RetryResponse(r, status)

SpecApi == Init /\ [][NextApi]_vars

\* the calls of refreshTokens that have not settled
RefreshesInFlight == {r \in 1..Len(apiRequests) : apiRequests[r] = "refreshing"}

\* C28 as claimed: when several requests issued through the API client each
\* receive a 401, at most one token-refresh call is in flight at any time.
C28_SharedTokenRefresh ==
    Cardinality(RefreshesInFlight) <= 1

----------------------------------------------------------------------------
(* useOptimisticUpdate: the pending updates *)

\* pendingUpdatesCount: pendingUpdates.size
pendingUpdatesCount == Cardinality(DOMAIN pendingUpdates)

\* hasPendingUpdates: pendingUpdates.size > 0
hasPendingUpdates == pendingUpdatesCount > 0

\* C29 as claimed: at every moment pendingUpdatesCount is the number of calls
\* of updateOptimistically that have started and not settled, calls that
\* share an updateId included, and hasPendingUpdates is false exactly when no
\* call is in flight.
C29_PendingCountMatchesCalls ==
    /\ pendingUpdatesCount = BagCardinality(calls)
    /\ hasPendingUpdates <=> BagCardinality(calls) > 0

----------------------------------------------------------------------------
(* The order utilities: canCancelOrder, canUpdateOrderStatus,
   getNextPossibleStatuses *)

\* order.status: the statuses of the transition table, and two of the
\* lower-case values of the OrderStatus enum
OrderStatuses ==
    {"PENDING", "CONFIRMED", "PROCESSING", "SHIPPED", "DELIVERED", "CANCELLED",
     "pending", "refunded"}

\* the newStatus argument, in upper, lower and mixed case
NewStatuses ==
    {"PENDING", "CONFIRMED", "PROCESSING", "SHIPPED", "DELIVERED", "CANCELLED",
     "pending", "confirmed", "processing", "shipped", "delivered", "cancelled", "Cancelled"}

\* String.prototype.toUpperCase on the strings of NewStatuses
toUpperCase(str) ==
    CASE str \in {"pending"} -> "PENDING"
      [] str \in {"confirmed"} -> "CONFIRMED"
      [] str \in {"processing"} -> "PROCESSING"
      [] str \in {"shipped"} -> "SHIPPED"
      [] str \in {"delivered"} -> "DELIVERED"
      [] str \in {"cancelled", "Cancelled"} -> "CANCELLED"
      [] OTHER -> str

\* Array.prototype.includes
arrayIncludes(array, x) ==
    \E i \in 1..Len(array) : array[i] = x

\* the validTransitions table of both functions
validTransitions ==
    [PENDING    |-> <<"CONFIRMED", "CANCELLED">>,
     CONFIRMED  |-> <<"PROCESSING", "CANCELLED">>,
     PROCESSING |-> <<"SHIPPED", "CANCELLED">>,
     SHIPPED    |-> <<"DELIVERED">>,
     DELIVERED  |-> << >>,
     CANCELLED  |-> << >>]

canCancelOrder(status) ==
    ~arrayIncludes(<<"DELIVERED", "CANCELLED">>, status)

\* validTransitions[currentStatus]?.includes(newStatus.toUpperCase()) || false
canUpdateOrderStatus(status, newStatus) ==
    IF status \in DOMAIN validTransitions
    THEN arrayIncludes(validTransitions[status], toUpperCase(newStatus))
    ELSE FALSE

\* validTransitions[order.status] || []
getNextPossibleStatuses(status) ==
    IF status \in DOMAIN validTransitions THEN validTransitions[status] ELSE << >>

\* the three functions are called for an order and a new status
CheckOrder(status, newStatus) ==
    /\ orderCheck' = [status |-> status, newStatus |-> newStatus,
                      canCancel |-> canCancelOrder(status),
                      canUpdate |-> canUpdateOrderStatus(status, newStatus),
                      next |-> getNextPossibleStatuses(status)]
    /\ UNCHANGED <<coreVars, lastOp, exceptOrderCheck>>

NextOrder ==
    \E status \in OrderStatuses, newStatus \in NewStatuses : CheckOrder(status, newStatus)

SpecOrder == Init /\ [][NextOrder]_vars

\* C30 as claimed: for every order status, canCancelOrder(order) is true
\* exactly when canUpdateOrderStatus(order, 'CANCELLED') is true and
\* CANCELLED is in getNextPossibleStatuses(order).
C30_CancelAgreesWithTransitions ==
    orderCheck.newStatus = "CANCELLED" =>
        (orderCheck.canCancel <=>
            (orderCheck.canUpdate /\ arrayIncludes(orderCheck.next, "CANCELLED")))

====
